---- MODULE Spec2Model ----
(***************************************************************************)
(* Drive folder listener: webhook intake, debounce gate, per-file          *)
(* processing pipeline, upload with retries, and channel renewal.          *)
(*                                                                         *)
(* The application runs on one asyncio event loop.  A coroutine runs       *)
(* without interruption from one "await" to the next, so every action      *)
(* below is the code between two awaits of one coroutine.  Every await of  *)
(* a collaborator is taken as a point where other coroutines may run, also *)
(* where the awaited call happens to block instead of suspending.          *)
(***************************************************************************)
EXTENDS Integers, Sequences, FiniteSets, TLC

----------------------------------------------------------------------------
(* Program constants *)

DEBOUNCE_INTERVAL == 5
RETRIES == 3
LOOKAHEAD == 21600
WATCH_LIFETIME == 604800
RENEW_INTERVAL == 43200

(* Bounds of the model *)

\* time() at process start: seconds since the epoch, far above DEBOUNCE_INTERVAL.
StartTime == 10
\* How long the clock runs, how many requests, faults, setups and renewal runs.
MaxElapsed == 10
MaxRequests == 3
MaxFaults == 1
\* The same for the channel operations.
RenewalFaults == 2
MaxSetups == 1
MaxRenewRuns == 2
\* How many days the renewal schedule is followed.
MaxDays == 8

MaxTime == StartTime + MaxElapsed

\* Time passes between events by just under, or exactly, the debounce interval.
TickSteps == {DEBOUNCE_INTERVAL - 1, DEBOUNCE_INTERVAL}

None == "None"

\* A channel id is the pair built by setup_watch; NoChannel is a missing header,
\* Foreign an id this service never registered.
NoChannel == <<>>
Foreign == <<"foreign", 0>>
NoRequest == [cid |-> NoChannel, state |-> None]

Handlers == {"h1", "h2"}
Folders == {"F1", "F2"}
Files == {"f1", "f2"}


\* file['name'] of a listed file: two files may carry the same name.
Name(f) == "report.pdf"

Names == {Name(f) : f \in Files}

Absent == "absent"
Partial == "partial"

ResourceStates == {None, "sync", "trash", "add"}

ChannelId(F, t) == <<F, t>>

VARIABLES
    now,               \* time(): seconds on the wall clock
    channels,          \* table notification_channels
    processed,         \* table processed_files
    processing_files,  \* main.py: processing_files
    LAST_CHECK_TIME,   \* main.py: LAST_CHECK_TIME
    tempfiles,         \* TEMP_DOWNLOAD_PATH: name -> content
    pc,                \* where each request's coroutine stands
    hfolder,           \* channel.folder_id of the request being handled
    hreq,              \* headers of the request being handled
    tasks,             \* background_tasks of the request
    attempt,           \* upload_file: attempt
    renew,             \* renew_channels: the rows still to renew, none when no run is on
    up,                \* one upload_file call against a scripted gateway
    drive,             \* per folder, the files the provider lists
    lim,               \* how many requests, failures, setups, renewal runs; who serves
    ev,                \* the last thing the program did that is visible outside
    listed,            \* per folder, the time of the last listing call triggered
    uploads,           \* per file, the upload calls that returned a document id
    runs,              \* per file, the pipeline runs started
    nfault, nreq, nsetup, nrenew

vars == <<now, channels, processed, processing_files, LAST_CHECK_TIME, tempfiles,
          pc, hfolder, hreq, tasks, attempt, renew, up, drive, lim, ev, listed,
          uploads, runs, nfault, nreq, nsetup, nrenew>>

intakeVars == <<LAST_CHECK_TIME, hfolder, hreq, listed>>
runVars == <<processing_files, tempfiles, tasks, attempt, uploads, runs>>
counters == <<nreq, nsetup, nrenew>>
envVars == <<up, drive, lim>>

\* k more collaborator failures, within the bound.
Fault(k) == nfault + k <= lim.fault /\ nfault' = nfault + k

----------------------------------------------------------------------------
(* Record store *)

\* db.query(NotificationChannel.folder_id).filter_by(channel_id=...).first()
ChannelRows(rows, cid) == {r \in rows : r.channel_id = cid}

\* db.query(ProcessedFile).filter_by(file_id=file_id).first()
Existing(rows, f) == {r \in rows : r.file_id = f}

\* {f[0] for f in db.query(ProcessedFile.file_id).all()}
ProcessedIds(rows) == {r.file_id : r \in rows}

\* Column(Integer, primary_key=True): the next key of a table no row leaves.
NextId(rows) == Cardinality(rows) + 1

\* The insert as it would be were file_id not declared unique.
InsertProcessedNotUnique(rows, f, commitOk) ==
    IF commitOk
    THEN rows \cup {[id |-> NextId(rows), file_id |-> f, file_name |-> Name(f)]}
    ELSE rows

\* db.add(ProcessedFile(file_id, file_name)); db.commit(): file_id is unique,
\* so the commit raises when a row of that file_id exists.
InsertProcessed(rows, f, commitOk) ==
    IF commitOk /\ Existing(rows, f) = {}
    THEN rows \cup {[id |-> NextId(rows), file_id |-> f, file_name |-> Name(f)]}
    ELSE rows

----------------------------------------------------------------------------
(* Debounce gate *)

\* LAST_CHECK_TIME.get(channel.folder_id, 0)
LastCheck(lct, F) == IF F \in DOMAIN lct THEN lct[F] ELSE 0

\* The comparison with the boundary on the wrong side.
DebouncedInclusive(t, last) == t - last <= DEBOUNCE_INTERVAL

\* current_time - last_check < DEBOUNCE_INTERVAL
Debounced(t, last) == t - last < DEBOUNCE_INTERVAL

\* The gate without its write.
RecordCheckLost(lct, F, t) == lct

\* The write reaching every folder's entry.
RecordCheckAll(lct, F, t) == [x \in DOMAIN lct \cup {F} |-> t]

\* LAST_CHECK_TIME[channel.folder_id] = current_time
RecordCheck(lct, F, t) ==
    [x \in DOMAIN lct \cup {F} |-> IF x = F THEN t ELSE lct[x]]

----------------------------------------------------------------------------
(* Notification intake: drive_webhook up to the listing call *)

Reply(cid, st, status, body, n) ==
    [kind |-> "response", cid |-> cid, state |-> st,
     status |-> status, body |-> body, files |-> n]

\* The handler without its early returns for sync and trash.
IntakeNoEarlyReturn(cid, st, rows, dbOk, lct, t) ==
    IF cid = NoChannel \/ st = None
    THEN [do |-> "reply", status |-> 400, body |-> "Missing required headers"]
    ELSE IF ~dbOk
    THEN [do |-> "reply", status |-> 200, body |-> "error"]
    ELSE IF ChannelRows(rows, cid) = {}
    THEN [do |-> "reply", status |-> 200, body |-> "ignored"]
    ELSE LET F == (CHOOSE r \in ChannelRows(rows, cid) : TRUE).folder_id IN
         IF t - LastCheck(lct, F) < DEBOUNCE_INTERVAL
         THEN [do |-> "reply", status |-> 200, body |-> "debounced"]
         ELSE [do |-> "list", folder |-> F]

\* What the handler decides before it lists: a reply, or "list" for folder F.
Intake(cid, st, rows, dbOk, lct, t) ==
    IF cid = NoChannel \/ st = None
    THEN [do |-> "reply", status |-> 400, body |-> "Missing required headers"]
    ELSE IF st = "sync"
    THEN [do |-> "reply", status |-> 200, body |-> "sync acknowledged"]
    ELSE IF st = "trash"
    THEN [do |-> "reply", status |-> 200, body |-> "trash ignored"]
    ELSE IF ~dbOk
    THEN [do |-> "reply", status |-> 200, body |-> "error"]
    ELSE IF ChannelRows(rows, cid) = {}
    THEN [do |-> "reply", status |-> 200, body |-> "ignored"]
    ELSE LET F == (CHOOSE r \in ChannelRows(rows, cid) : TRUE).folder_id IN
         IF Debounced(t, LastCheck(lct, F))
         THEN [do |-> "reply", status |-> 200, body |-> "debounced"]
         ELSE [do |-> "list", folder |-> F]

\* Whether the handler gets as far as the channel query.
ReachesLookup(cid, st) == cid # NoChannel /\ st \notin {None, "sync", "trash"}

\* The channel ids a notification can carry: none, one never registered, or
\* one that is or was registered.
RequestChannels == {NoChannel, Foreign} \cup {r.channel_id : r \in channels}
                       \cup {ChannelId(F, 0) : F \in Folders}

Webhook(h, cid, st, dbOk) ==
    /\ pc[h] = "idle"
    /\ h \in lim.workers
    /\ nreq < lim.req
    /\ nreq' = nreq + 1
    /\ Fault(IF ReachesLookup(cid, st) /\ ~dbOk THEN 1 ELSE 0)
    /\ LET d == Intake(cid, st, channels, dbOk, LAST_CHECK_TIME, now) IN
       IF d.do = "reply"
       THEN /\ ev' = Reply(cid, st, d.status, d.body, 0)
            /\ UNCHANGED <<pc, intakeVars>>
       ELSE /\ LAST_CHECK_TIME' = RecordCheck(LAST_CHECK_TIME, d.folder, now)
            /\ listed' = [F \in DOMAIN listed \cup {d.folder} |->
                           IF F = d.folder THEN now ELSE listed[F]]
            /\ pc' = [pc EXCEPT ![h] = "listing"]
            /\ hfolder' = [hfolder EXCEPT ![h] = d.folder]
            /\ hreq' = [hreq EXCEPT ![h] = [cid |-> cid, state |-> st]]
            /\ ev' = [kind |-> "gate", cid |-> cid, state |-> st, folder |-> d.folder]
    /\ UNCHANGED <<now, channels, processed, runVars, renew, envVars, nsetup, nrenew>>

\* The orders in which a listing can return a set of files.
Orders(S) == {s \in [1..Cardinality(S) -> S] : \A i, j \in DOMAIN s : s[i] = s[j] => i = j}

\* What list_new_files can return for the folder of the request: any of the
\* folder's files (those created in the last 300 s), in any order.
Listings(h) ==
    IF pc[h] = "listing" THEN UNION {Orders(S) : S \in SUBSET drive[hfolder[h]]} ELSE {}

\* The dispatch without the filter.
UnprocessedAll(listing, rows) == listing

\* new_files = [f for f in new_files if f['id'] not in processed_ids]
Unprocessed(listing, rows) ==
    LET New(f) == f \notin ProcessedIds(rows) IN SelectSeq(listing, New)

\* list_new_files, the processed-file query, the dispatch and the reply.  An
\* exception of the listing or of the query is caught by nothing in the handler:
\* the framework answers 500.
ListFiles(h, listing, result) ==
    /\ pc[h] = "listing"
    /\ Fault(IF result = "ok" THEN 0 ELSE 1)
    /\ IF result = "ok"
       THEN LET new == Unprocessed(listing, processed) IN
            /\ tasks' = [tasks EXCEPT ![h] = new]
            /\ pc' = [pc EXCEPT ![h] = IF new = <<>> THEN "idle" ELSE "tasks"]
            /\ ev' = Reply(hreq[h].cid, hreq[h].state, 200, "processing", Len(new))
                        @@ ("listing" :> listing)
       ELSE /\ pc' = [pc EXCEPT ![h] = "idle"]
            /\ ev' = Reply(hreq[h].cid, hreq[h].state, 500, "Internal Server Error", 0)
                        @@ ("listing" :> IF result = "query raises" THEN listing ELSE <<>>)
            /\ UNCHANGED tasks
    /\ hfolder' = [hfolder EXCEPT ![h] = None]
    /\ hreq' = [hreq EXCEPT ![h] = NoRequest]
    /\ UNCHANGED <<now, channels, processed, processing_files, LAST_CHECK_TIME,
                   listed, tempfiles, attempt, uploads, runs, renew, envVars, counters>>

----------------------------------------------------------------------------
(* File processing pipeline: process_file *)

\* The finally block without the removal.
ReleaseNever(pf, f) == pf

\* finally: processing_files.remove(file_id), KeyError tolerated
Release(pf, f) == pf \ {f}

\* The finally block without the deletion.
UnlinkNever(tf, f, unlinkOk) == tf

\* finally: if temp_path.exists(): temp_path.unlink(), a failure only logged
Unlink(tf, f, unlinkOk) ==
    IF tf[Name(f)] # Absent /\ unlinkOk THEN [tf EXCEPT ![Name(f)] = Absent] ELSE tf

\* The end of a run of handler h for file f by exit path `path`, after k
\* failures in this step: the finally block, then the next background task of
\* the same request.
EndRun(h, f, path, pf, tf, unlinkOk, k) ==
    /\ Fault(k + IF tf[Name(f)] # Absent /\ ~unlinkOk THEN 1 ELSE 0)
    /\ processing_files' = Release(pf, f)
    /\ tempfiles' = Unlink(tf, f, unlinkOk)
    /\ tasks' = [tasks EXCEPT ![h] = Tail(tasks[h])]
    /\ pc' = [pc EXCEPT ![h] = IF Tail(tasks[h]) = <<>> THEN "idle" ELSE "tasks"]
    /\ attempt' = [attempt EXCEPT ![h] = 0]
    /\ ev' = [kind |-> "exit", file |-> f, path |-> path,
              unlinked |-> (tf[Name(f)] = Absent \/ unlinkOk)]

\* From the start of process_file to the settling delay.
StartRun(h, dbOk, unlinkOk) ==
    /\ pc[h] = "tasks"
    /\ LET f == Head(tasks[h]) IN
       /\ runs' = [runs EXCEPT ![f] = @ + 1]
       /\ IF f \in processing_files
          THEN EndRun(h, f, "in flight", processing_files, tempfiles, unlinkOk, 0)
          ELSE IF ~dbOk
          THEN EndRun(h, f, "exception", processing_files \cup {f}, tempfiles,
                      unlinkOk, 1)
          ELSE IF Existing(processed, f) # {}
          THEN EndRun(h, f, "already processed", processing_files \cup {f},
                      tempfiles, unlinkOk, 0)
          ELSE /\ processing_files' = processing_files \cup {f}
               /\ pc' = [pc EXCEPT ![h] = "sleep"]
               /\ UNCHANGED <<tempfiles, tasks, attempt, ev, nfault>>
    /\ UNCHANGED <<now, channels, processed, intakeVars, uploads, renew, envVars, counters>>

\* download_file: open(destination_path, 'wb') and the chunks.  A failure leaves
\* what open() left: nothing, or a truncated file.
Download(h, result, unlinkOk) ==
    /\ pc[h] = "sleep"
    /\ LET f == Head(tasks[h]) IN
       IF result = "ok"
       THEN /\ tempfiles' = [tempfiles EXCEPT ![Name(f)] = f]
            /\ pc' = [pc EXCEPT ![h] = "upload"]
            /\ UNCHANGED <<processing_files, tasks, attempt, ev, nfault>>
       ELSE EndRun(h, f, "download failure", processing_files,
                   IF result = "truncated"
                   THEN [tempfiles EXCEPT ![Name(f)] = Partial]
                   ELSE tempfiles,
                   unlinkOk, 1)
    /\ UNCHANGED <<now, channels, processed, intakeVars, uploads, runs, renew, envVars,
                   counters>>

----------------------------------------------------------------------------
(* Ingestion gateway: DifyClient.upload_file *)

UploadOutcomes == {"ok", "noid", "non200", "exception"}

\* The loop with one turn too many.
UploadStepOneMore(att, outcome, retries) ==
    IF outcome = "ok" THEN [ret |-> TRUE, doc |-> TRUE, next |-> att]
    ELSE IF outcome = "noid" THEN [ret |-> TRUE, doc |-> FALSE, next |-> att]
    ELSE IF att = retries THEN [ret |-> TRUE, doc |-> FALSE, next |-> att]
    ELSE [ret |-> FALSE, doc |-> FALSE, next |-> att + 1]

\* The call returning something truthy for a response that holds no id.
UploadStepNoId(att, outcome, retries) ==
    IF outcome \in {"ok", "noid"} THEN [ret |-> TRUE, doc |-> TRUE, next |-> att]
    ELSE IF att = retries - 1 THEN [ret |-> TRUE, doc |-> FALSE, next |-> att]
    ELSE [ret |-> FALSE, doc |-> FALSE, next |-> att + 1]

\* One turn of "for attempt in range(retries)", attempt counted from 0: the
\* outcome of the request decides between a return and the next attempt.
UploadStep(att, outcome, retries) ==
    IF outcome = "ok" THEN [ret |-> TRUE, doc |-> TRUE, next |-> att]
    ELSE IF outcome = "noid" THEN [ret |-> TRUE, doc |-> FALSE, next |-> att]
    ELSE IF att = retries - 1 THEN [ret |-> TRUE, doc |-> FALSE, next |-> att]
    ELSE [ret |-> FALSE, doc |-> FALSE, next |-> att + 1]

\* What open(file_path, "rb") yields for the run of file f: the first attempt
\* opens what the download has just written, a later one whatever is at the
\* path by then.
Opened(tf, f, att) == IF att = 0 THEN f ELSE tf[Name(f)]

\* open(file_path, "rb") raises when the file is gone: the attempt ends in the
\* except branch.  The first attempt opens the file the download has just
\* written, before any other coroutine runs; a later one opens it after the
\* request of the one before.
AttemptOutcome(tf, f, att, gateway) ==
    IF att > 0 /\ tf[Name(f)] = Absent THEN "exception" ELSE gateway

\* One attempt of the upload, and when upload_file returns, the rest of
\* process_file: the ProcessedFile insert and the finally block.  A gateway
\* that fails is one failure however many attempts of the call it fails.
UploadAttempt(h, gateway, commitOk, unlinkOk) ==
    /\ pc[h] = "upload"
    /\ LET f == Head(tasks[h])
           o == AttemptOutcome(tempfiles, f, attempt[h], gateway)
           u == UploadStep(attempt[h], o, RETRIES)
           k == IF o # "ok" /\ attempt[h] = 0 THEN 1 ELSE 0
       IN
       /\ uploads' = [uploads EXCEPT ![f] = IF o = "ok" THEN @ + 1 ELSE @]
       /\ IF ~u.ret
          THEN /\ attempt' = [attempt EXCEPT ![h] = u.next]
               /\ Fault(k)
               /\ UNCHANGED <<processed, processing_files, tempfiles, tasks, pc, ev>>
          ELSE IF ~u.doc
          THEN /\ EndRun(h, f, "upload failure", processing_files, tempfiles,
                         unlinkOk, k)
               /\ UNCHANGED processed
          ELSE /\ processed' = InsertProcessed(processed, f, commitOk)
               /\ EndRun(h, f,
                         IF processed' # processed THEN "success" ELSE "store failure",
                         processing_files, tempfiles, unlinkOk,
                         k + IF commitOk THEN 0 ELSE 1)
    /\ UNCHANGED <<now, channels, intakeVars, runs, renew, envVars, counters>>

----------------------------------------------------------------------------
(* Storage provider gateway: setup_watch *)

\* channel_id = f"channel_{folder_id}_{int(datetime.utcnow().timestamp())}" and
\* the expiration asked for, seven days on.
NewChannel(F, t) ==
    [channel_id |-> ChannelId(F, t), folder_id |-> F, expiration |-> t + WATCH_LIFETIME]

----------------------------------------------------------------------------
(* Setup endpoint: setup_monitoring *)

\* db.add(NotificationChannel(...)); db.commit(): channel_id is unique.
InsertChannel(rows, c, commitOk) ==
    IF commitOk /\ ChannelRows(rows, c.channel_id) = {}
    THEN rows \cup {[id |-> NextId(rows), channel_id |-> c.channel_id,
                     folder_id |-> c.folder_id, expiration |-> c.expiration]}
    ELSE rows

Setup(F, watchOk, commitOk) ==
    /\ nsetup < lim.setup
    /\ nsetup' = nsetup + 1
    /\ Fault(IF watchOk /\ commitOk THEN 0 ELSE 1)
    /\ channels' = IF watchOk
                   THEN InsertChannel(channels, NewChannel(F, now), commitOk)
                   ELSE channels
    /\ ev' = [kind |-> "setup", folder |-> F,
              status |-> IF channels' # channels THEN 200 ELSE 500]
    /\ UNCHANGED <<now, processed, intakeVars, runVars, pc, renew, envVars,
                   nreq, nrenew>>

----------------------------------------------------------------------------
(* Channel renewal loop: renew_channels *)

\* NotificationChannel.expiration <= datetime.utcnow() + timedelta(hours=6)
Candidates(rows, t) == {r \in rows : r.expiration <= t + LOOKAHEAD}

\* The ids of a set of rows, in the order of the primary key.
RECURSIVE InOrder(_)
InOrder(ids) ==
    IF ids = {} THEN <<>>
    ELSE LET m == CHOOSE i \in ids : \A j \in ids : i <= j
         IN <<m>> \o InOrder(ids \ {m})

Row(rows, id) == CHOOSE r \in rows : r.id = id

\* The renewal storing the new channel as a row of its own.
RenewRowAdd(rows, id, t, watchOk, commitOk) ==
    IF watchOk
    THEN InsertChannel(rows, NewChannel(Row(rows, id).folder_id, t), commitOk)
    ELSE rows

\* channel.channel_id = ...; channel.expiration = ...; db.commit(), or what
\* db.rollback() leaves when setup_watch or the commit raised.
RenewRow(rows, id, t, watchOk, commitOk) ==
    LET r == Row(rows, id)
        c == NewChannel(r.folder_id, t)
        clash == {x \in ChannelRows(rows, c.channel_id) : x.id # id}
    IN IF watchOk /\ commitOk /\ clash = {}
       THEN (rows \ {r}) \cup {[r EXCEPT !.channel_id = c.channel_id,
                                         !.expiration = c.expiration]}
       ELSE rows

\* The loop left by the first failure.
RenewRestAbort(queue, renewed) == IF renewed THEN Tail(queue) ELSE <<>>

\* "for channel in channels": the except branch goes on with the next channel.
RenewRest(queue, renewed) == Tail(queue)

RenewStart(dbOk) ==
    /\ renew = <<>>
    /\ nrenew < lim.renew
    /\ nrenew' = nrenew + 1
    /\ Fault(IF dbOk THEN 0 ELSE 1)
    /\ renew' = IF dbOk THEN InOrder({r.id : r \in Candidates(channels, now)}) ELSE <<>>
    /\ ev' = [kind |-> "renewal", found |-> IF dbOk THEN Len(renew') ELSE 0]
    /\ UNCHANGED <<now, channels, processed, intakeVars, runVars, pc, envVars,
                   nreq, nsetup>>

RenewOne(watchOk, commitOk) ==
    /\ renew # <<>>
    /\ Fault(IF watchOk /\ commitOk THEN 0 ELSE 1)
    /\ channels' = RenewRow(channels, Head(renew), now, watchOk, commitOk)
    /\ renew' = RenewRest(renew, watchOk /\ commitOk)
    /\ ev' = [kind |-> "renew", old |-> Row(channels, Head(renew)),
              watch |-> watchOk, commit |-> (watchOk /\ commitOk)]
    /\ UNCHANGED <<now, processed, intakeVars, runVars, pc, envVars, counters>>

----------------------------------------------------------------------------
(* Time *)

Tick(d) ==
    /\ now + d <= MaxTime
    /\ now' = now + d
    /\ UNCHANGED <<channels, processed, intakeVars, runVars, pc, renew, envVars, ev, nfault,
                   counters>>

----------------------------------------------------------------------------

\* The store outlives the process: it starts with one channel per folder,
\* registered by an earlier /setup and about to expire.
InitChannels ==
    {[id |-> IF F = "F1" THEN 1 ELSE 2, channel_id |-> ChannelId(F, 0),
      folder_id |-> F, expiration |-> StartTime + 1] : F \in Folders}

NoUpload == [script |-> <<>>, att |-> 0, made |-> 0, done |-> TRUE, doc |-> FALSE]

\* The state at startup, for the files the provider holds in folder F1, the
\* limits of the run and the upload call to make.
Start(files, limits, call) ==
    /\ now = StartTime
    /\ channels = InitChannels
    /\ processed = {}
    /\ processing_files = {}
    /\ LAST_CHECK_TIME = <<>>
    /\ listed = <<>>
    /\ tempfiles = [n \in Names |-> Absent]
    /\ pc = [h \in Handlers |-> "idle"]
    /\ hfolder = [h \in Handlers |-> None]
    /\ hreq = [h \in Handlers |-> NoRequest]
    /\ tasks = [h \in Handlers |-> <<>>]
    /\ attempt = [h \in Handlers |-> 0]
    /\ renew = <<>>
    /\ up = call
    /\ drive = [F \in Folders |-> IF F = "F1" THEN files ELSE {}]
    /\ lim = limits
    /\ ev = [kind |-> "start"]
    /\ uploads = [f \in Files |-> 0]
    /\ runs = [f \in Files |-> 0]
    /\ nfault = 0 /\ nreq = 0 /\ nsetup = 0 /\ nrenew = 0

----------------------------------------------------------------------------
(* Intake and pipeline: requests, listings and the runs they dispatch *)

Init ==
    Start({"f1"}, [req |-> MaxRequests, fault |-> MaxFaults, setup |-> 0, renew |-> 0,
                   workers |-> Handlers],
          NoUpload)

Next ==
    \/ \E d \in TickSteps : Tick(d)
    \/ \E h \in Handlers, cid \in RequestChannels, st \in ResourceStates, dbOk \in BOOLEAN :
         Webhook(h, cid, st, dbOk)
    \/ \E h \in Handlers, result \in {"ok", "listing raises", "query raises"} :
         \E listing \in Listings(h) : ListFiles(h, listing, result)
    \/ \E h \in Handlers, dbOk \in BOOLEAN, unlinkOk \in BOOLEAN :
         StartRun(h, dbOk, unlinkOk)
    \/ \E h \in Handlers, result \in {"ok", "failed", "truncated"}, unlinkOk \in BOOLEAN :
         Download(h, result, unlinkOk)
    \/ \E h \in Handlers, gateway \in UploadOutcomes, commitOk \in BOOLEAN,
          unlinkOk \in BOOLEAN :
         UploadAttempt(h, gateway, commitOk, unlinkOk)

Spec == Init /\ [][Next]_vars

----------------------------------------------------------------------------
(* Intake and pipeline with two files of one name in the folder *)

InitTwoFiles ==
    Start(Files, [req |-> MaxRequests - 1, fault |-> MaxFaults, setup |-> 0, renew |-> 0,
                  workers |-> Handlers],
          NoUpload)

SpecTwoFiles == InitTwoFiles /\ [][Next]_vars

----------------------------------------------------------------------------
(* Channels: setup and renewal *)

InitRenewal ==
    Start({}, [req |-> 0, fault |-> RenewalFaults, setup |-> MaxSetups,
               renew |-> MaxRenewRuns, workers |-> {}],
          NoUpload)

NextRenewal ==
    \/ Tick(DEBOUNCE_INTERVAL)
    \/ \E F \in Folders, watchOk \in BOOLEAN, commitOk \in BOOLEAN :
         Setup(F, watchOk, commitOk)
    \/ \E dbOk \in BOOLEAN : RenewStart(dbOk)
    \/ \E watchOk \in BOOLEAN, commitOk \in BOOLEAN : RenewOne(watchOk, commitOk)

SpecRenewal == InitRenewal /\ [][NextRenewal]_vars

----------------------------------------------------------------------------
(* Notifications while the channels are renewed; the folders hold no file, *)
(* requests are served one at a time                                       *)

InitRenewedIntake ==
    Start({}, [req |-> MaxRequests - 1, fault |-> MaxFaults, setup |-> 0,
               renew |-> MaxRenewRuns, workers |-> {"h1"}],
          NoUpload)

NextRenewedIntake ==
    \/ \E d \in TickSteps : Tick(d)
    \/ \E h \in Handlers, cid \in RequestChannels, st \in ResourceStates, dbOk \in BOOLEAN :
         Webhook(h, cid, st, dbOk)
    \/ \E h \in Handlers, result \in {"ok", "listing raises", "query raises"} :
         \E listing \in Listings(h) : ListFiles(h, listing, result)
    \/ \E dbOk \in BOOLEAN : RenewStart(dbOk)
    \/ \E watchOk \in BOOLEAN, commitOk \in BOOLEAN : RenewOne(watchOk, commitOk)

SpecRenewedIntake == InitRenewedIntake /\ [][NextRenewedIntake]_vars

----------------------------------------------------------------------------
(* One upload_file call against a gateway whose answers are scripted *)

Scripts == [1..RETRIES + 1 -> UploadOutcomes]

InitUpload ==
    \E script \in Scripts :
      Start({}, [req |-> 0, fault |-> 0, setup |-> 0, renew |-> 0, workers |-> {}],
            [script |-> script, att |-> 0, made |-> 0, done |-> FALSE, doc |-> FALSE])

\* One request of the call: the gateway answers what its script says next.
UploadCall ==
    /\ ~up.done
    /\ up.made < Len(up.script)
    /\ LET u == UploadStep(up.att, up.script[up.made + 1], RETRIES) IN
       up' = [up EXCEPT !.att = u.next, !.made = @ + 1, !.done = u.ret, !.doc = u.doc]
    /\ UNCHANGED <<now, channels, processed, intakeVars, runVars, pc, renew, drive, lim,
                   ev, nfault, counters>>

NextUpload == UploadCall

SpecUpload == InitUpload /\ [][NextUpload]_vars

----------------------------------------------------------------------------
(* The renewal schedule: start_scheduler runs renew_channels every 12 hours,  *)
(* counted from startup, and every stop, registration and commit succeeds     *)

Hour == 60 * 60

\* The interval trigger has fired fewer times than the elapsed time holds
\* intervals: a run is due now.
Due == nrenew < (now - StartTime) \div RENEW_INTERVAL

\* scheduler.add_job(renew_channels, 'interval', hours=12)
ScheduledRenewal == Due /\ RenewStart(TRUE)

\* An hour passes while no run is due or under way.
Wait ==
    /\ ~Due /\ renew = <<>>
    /\ now + Hour <= StartTime + MaxDays * 24 * Hour
    /\ now' = now + Hour
    /\ UNCHANGED <<channels, processed, intakeVars, runVars, pc, renew, envVars, ev,
                   nfault, counters>>

\* No channel is stored at startup; /setup is called at any hour of the first
\* interval, which is every position a creation time has in the schedule.
InitKeepAlive ==
    /\ now = StartTime
    /\ channels = {}
    /\ processed = {}
    /\ processing_files = {}
    /\ LAST_CHECK_TIME = <<>>
    /\ listed = <<>>
    /\ tempfiles = [n \in Names |-> Absent]
    /\ pc = [h \in Handlers |-> "idle"]
    /\ hfolder = [h \in Handlers |-> None]
    /\ hreq = [h \in Handlers |-> NoRequest]
    /\ tasks = [h \in Handlers |-> <<>>]
    /\ attempt = [h \in Handlers |-> 0]
    /\ renew = <<>>
    /\ up = NoUpload
    /\ drive = [F \in Folders |-> {}]
    /\ lim = [req |-> 0, fault |-> 0, setup |-> MaxSetups, renew |-> 2 * MaxDays,
              workers |-> {}]
    /\ ev = [kind |-> "start"]
    /\ uploads = [f \in Files |-> 0]
    /\ runs = [f \in Files |-> 0]
    /\ nfault = 0 /\ nreq = 0 /\ nsetup = 0 /\ nrenew = 0

NextKeepAlive ==
    \/ Wait
    \/ \E F \in Folders :
         now < StartTime + RENEW_INTERVAL /\ renew = <<>> /\ Setup(F, TRUE, TRUE)
    \/ ScheduledRenewal
    \/ RenewOne(TRUE, TRUE)

SpecKeepAlive == InitKeepAlive /\ [][NextKeepAlive]_vars

----------------------------------------------------------------------------
(* Properties *)

Idle == \A h \in Handlers : pc[h] = "idle"

\* Handler h ends a pipeline run in this step.
RunEnds(h) == pc[h] \in {"tasks", "sleep", "upload"} /\ tasks'[h] = Tail(tasks[h])

\* Some handler other than h is inside a run for file f.
OtherRun(h, f) ==
    \E g \in Handlers \ {h} : pc[g] \in {"sleep", "upload"} /\ Head(tasks[g]) = f

FolderOf(cid) == (CHOOSE r \in ChannelRows(channels, cid) : TRUE).folder_id

\* C1: once every run has ended and no collaborator has failed, a file that had
\* two or more pipeline runs has exactly one ProcessedFile row, and at most one
\* upload call for it returned a document id.
C1_Idempotence ==
    (Idle /\ nfault = 0) =>
      \A f \in Files :
        runs[f] >= 2 => Cardinality(Existing(processed, f)) = 1 /\ uploads[f] <= 1

\* C2: the store never holds two ProcessedFile rows of one file_id, and no step
\* changes or removes a row that exists.
C2_AppendOnlyUnique ==
    [][/\ processed \subseteq processed'
       /\ \A r1, r2 \in processed' : r1.file_id = r2.file_id => r1 = r2]_vars

\* C2 witness: a second upload of a file succeeded while its row existed or was
\* being written, so a second insert was tried.
C2_Witness == \E f \in Files : Existing(processed, f) # {} /\ uploads[f] >= 2

\* C3: a step adds a ProcessedFile row only as the end of a run whose upload
\* call returned a document id in that step, and the row is that run's file; a
\* run that ends any other way leaves the rows as they were.
C3_RowOnlyAfterUpload ==
    [][/\ processed' # processed =>
            \E h \in Handlers :
              /\ pc[h] = "upload" /\ RunEnds(h)
              /\ uploads'[Head(tasks[h])] = uploads[Head(tasks[h])] + 1
              /\ \E r \in processed' :
                   /\ r.file_id = Head(tasks[h])
                   /\ processed' = processed \cup {r}
       /\ \A h \in Handlers :
            (RunEnds(h) /\ ev'.path # "success") => processed' = processed]_vars

\* C3 witness: a run ended at the commit, after its upload had returned a
\* document id, and the file has no row.
C3_Witness ==
    /\ ev.kind = "exit" /\ ev.path = "store failure"
    /\ uploads[ev.file] = 1 /\ Existing(processed, ev.file) = {}

\* C4: a notification that reaches the gate for folder F passes it, and records
\* now as F's last-check time, exactly when F has no recorded check or
\* now - last_check >= DEBOUNCE_INTERVAL; otherwise it is answered "debounced"
\* and the table is left alone.
C4_DebounceGate ==
    [][nreq' = nreq + 1 =>
        /\ ev'.kind = "gate" =>
             /\ \/ ev'.folder \notin DOMAIN LAST_CHECK_TIME
                \/ now - LAST_CHECK_TIME[ev'.folder] >= DEBOUNCE_INTERVAL
             /\ ev'.folder \in DOMAIN LAST_CHECK_TIME'
             /\ LAST_CHECK_TIME'[ev'.folder] = now
        /\ (ev'.kind = "response" /\ ev'.body = "debounced") =>
             /\ FolderOf(ev'.cid) \in DOMAIN LAST_CHECK_TIME
             /\ now - LAST_CHECK_TIME[FolderOf(ev'.cid)] < DEBOUNCE_INTERVAL
             /\ LAST_CHECK_TIME' = LAST_CHECK_TIME
        /\ (ev'.kind = "response" /\ ev'.state = "add" /\ nfault' = nfault
              /\ ChannelRows(channels, ev'.cid) # {}) => ev'.body = "debounced"]_vars

\* C4 witness: a check 4 seconds after an allowed one is rejected.
C4_Witness ==
    /\ ev.kind = "response" /\ ev.body = "debounced"
    /\ now - LAST_CHECK_TIME[FolderOf(ev.cid)] = DEBOUNCE_INTERVAL - 1

\* C5: a notification triggers a listing for a folder only if the last listing
\* triggered for that folder is at least DEBOUNCE_INTERVAL old, and the step
\* that reads the folder's last-check time is the step that writes it.
C5_NoDoubleListing ==
    [][\A h \in Handlers :
         (pc[h] = "idle" /\ pc'[h] = "listing") =>
           /\ \/ hfolder'[h] \notin DOMAIN listed
              \/ now - listed[hfolder'[h]] >= DEBOUNCE_INTERVAL
           /\ hfolder'[h] \in DOMAIN LAST_CHECK_TIME'
           /\ LAST_CHECK_TIME'[hfolder'[h]] = now]_vars

\* C5 witness: while one request is at its listing call, a second request for
\* the same folder, less than DEBOUNCE_INTERVAL later, has been debounced.
C5_Witness ==
    \E h \in Handlers :
      /\ pc[h] = "listing"
      /\ ev.kind = "response" /\ ev.body = "debounced"
      /\ FolderOf(ev.cid) = hfolder[h]
      /\ now > listed[hfolder[h]]

\* C6: a response is 400 exactly when channel_id or resource_state is absent,
\* and every other response is 200.
C6_Status ==
    ev.kind = "response" =>
      /\ ev.status = 400 <=> (ev.cid = NoChannel \/ ev.state = None)
      /\ ev.status # 400 => ev.status = 200

\* C7: a notification carrying both headers whose state is sync or trash, or
\* whose channel_id has no row, is answered 200 with "sync acknowledged",
\* "trash ignored" or "ignored" (the last when the channel query answered), and
\* neither triggers a listing nor dispatches a run.
C7_NoListing ==
    [][(nreq' = nreq + 1 /\ ev'.cid # NoChannel /\ ev'.state # None
          /\ (ev'.state \in {"sync", "trash"} \/ ChannelRows(channels, ev'.cid) = {})) =>
        /\ ev'.kind = "response" /\ ev'.status = 200
        /\ ev'.body = IF ev'.state = "sync" THEN "sync acknowledged"
                      ELSE IF ev'.state = "trash" THEN "trash ignored"
                      ELSE IF nfault' = nfault THEN "ignored" ELSE "error"
        /\ UNCHANGED <<pc, tasks, listed, LAST_CHECK_TIME, runs>>]_vars

\* C7 witness: a sync notification on a channel the store knows, whose folder
\* is past its debounce interval, has been acknowledged.
C7_Witness ==
    /\ ev.kind = "response" /\ ev.state = "sync" /\ ev.body = "sync acknowledged"
    /\ ChannelRows(channels, ev.cid) # {}
    /\ FolderOf(ev.cid) \notin DOMAIN LAST_CHECK_TIME
    /\ Idle

Failing(o) == o \in {"non200", "exception"}

\* C8: upload_file makes at most RETRIES requests and has returned by then; with
\* two failures and then a success it returns the document id; with every
\* request failing it returns none after exactly RETRIES requests; it makes no
\* request after a successful one.
C8_RetryBound ==
    /\ up.made <= RETRIES
    /\ up.made = RETRIES => up.done
    /\ up.done /\ up.script # <<>> =>
         /\ (Failing(up.script[1]) /\ Failing(up.script[2]) /\ up.script[3] = "ok")
              => (up.doc /\ up.made = RETRIES)
         /\ (\A i \in 1..RETRIES : Failing(up.script[i]))
              => (~up.doc /\ up.made = RETRIES)
         /\ \A i \in 1..(up.made - 1) : up.script[i] # "ok"
         /\ up.doc <=> up.script[up.made] = "ok"

\* C8 witness: the call returned a document id from its third request.
C8_Witness == up.done /\ up.doc /\ up.made = RETRIES

\* C9: each channel of a renewal run is settled alone.  When its registration
\* and commit succeed its row holds the new channel_id and expiration; when
\* they fail its row is as before and stays a candidate of every later run;
\* either way no other row changes and the run goes on with the next channel.
C9_RenewalIsolation ==
    [][(renew # <<>> /\ renew' # renew) =>
        LET id == Head(renew)
            old == Row(channels, id)
            c == NewChannel(old.folder_id, now)
            ok == /\ ev'.watch /\ ev'.commit
                  /\ \A x \in channels : x.channel_id = c.channel_id => x.id = id
        IN /\ renew' = Tail(renew)
           /\ \A r \in channels : r.id # id => r \in channels'
           /\ Cardinality(channels') = Cardinality(channels)
           /\ ok => Row(channels', id) = [old EXCEPT !.channel_id = c.channel_id,
                                                     !.expiration = c.expiration]
           /\ ~ok => /\ Row(channels', id) = old
                     /\ \A t \in now..MaxTime : old \in Candidates(channels', t)]_vars

\* C9 witness: in the one run so far the first channel failed and was left as
\* it was, and the second one was renewed after it.
C9_Witness ==
    /\ nrenew = 1 /\ renew = <<>>
    /\ Row(channels, 1) \in InitChannels
    /\ Row(channels, 2).channel_id # ChannelId("F2", 0)
    /\ Row(channels, 1) \in Candidates(channels, now)

\* C10 as stated: when a run ends its temporary file does not exist, and its
\* file_id is out of the in-flight set unless another run for it is active.
C10_CleanupAlways ==
    [][\A h \in Handlers :
         RunEnds(h) =>
           /\ tempfiles'[Name(Head(tasks[h]))] = Absent
           /\ ~OtherRun(h, Head(tasks[h])) => Head(tasks[h]) \notin processing_files']_vars

\* C10 amended: when a run ends its temporary file does not exist unless the
\* deletion itself failed, and its file_id is out of the in-flight set unless
\* another run for it is active.
C10_Cleanup ==
    [][\A h \in Handlers :
         RunEnds(h) =>
           /\ ev'.unlinked => tempfiles'[Name(Head(tasks[h]))] = Absent
           /\ ~OtherRun(h, Head(tasks[h])) => Head(tasks[h]) \notin processing_files']_vars

\* C10 witness: a run that failed at the upload step has ended, its temporary
\* file is gone and its file_id is out of the in-flight set.
C10_Witness ==
    /\ ev.kind = "exit" /\ ev.path = "upload failure" /\ ev.unlinked
    /\ tempfiles[Name(ev.file)] = Absent
    /\ ev.file \notin processing_files
    /\ uploads[ev.file] = 0

\* C11: with the renewal loop running every 12 hours and every stop,
\* registration and commit succeeding, no stored channel has an expiration
\* earlier than the current time, whatever hour it was created at.
C11_NeverExpired == \A r \in channels : r.expiration >= now

\* C12: after any setup calls and renewal runs the store holds at most one
\* channel row per folder_id and at most one per channel_id.
C12_OneChannelPerFolder ==
    \A r1, r2 \in channels :
      (r1.folder_id = r2.folder_id \/ r1.channel_id = r2.channel_id) => r1 = r2

\* Handler h is inside a run for file f: past the in-flight add, before cleanup.
InRun(h, f) == pc[h] \in {"sleep", "upload"} /\ Head(tasks[h]) = f

\* C13: a run that finds its file_id in the in-flight set returns leaving the
\* in-flight set, the temporary files and the store as they were.
C13_NoOpRun ==
    [][\A h \in Handlers :
         (pc[h] = "tasks" /\ Head(tasks[h]) \in processing_files /\ RunEnds(h)) =>
           /\ processing_files' = processing_files
           /\ tempfiles' = tempfiles
           /\ processed' = processed]_vars

\* C14: a run in its settling delay, download, upload or record step has its
\* file_id in the in-flight set, and no two runs for one file_id are in those
\* steps together.
C14_MutualExclusion ==
    /\ \A h \in Handlers, f \in Files : InRun(h, f) => f \in processing_files
    /\ \A h, g \in Handlers, f \in Files : (InRun(h, f) /\ InRun(g, f)) => h = g

\* C15: a notification answered before or at the gate leaves the debounce
\* table as it was; the table changes only in the step of a notification that
\* passes the gate, and then only in the entry of that notification's folder.
C15_DebounceFrame ==
    [][/\ (nreq' = nreq + 1 /\ ev'.kind = "response") =>
            LAST_CHECK_TIME' = LAST_CHECK_TIME
       /\ LAST_CHECK_TIME' # LAST_CHECK_TIME =>
            /\ nreq' = nreq + 1 /\ ev'.kind = "gate"
            /\ DOMAIN LAST_CHECK_TIME' = DOMAIN LAST_CHECK_TIME \cup {ev'.folder}
            /\ \A F \in DOMAIN LAST_CHECK_TIME :
                 F # ev'.folder => LAST_CHECK_TIME'[F] = LAST_CHECK_TIME[F]]_vars

\* C15 witness: both folders have been checked, at different times, and the
\* last notification was debounced.
C15_Witness ==
    /\ ev.kind = "response" /\ ev.body = "debounced"
    /\ DOMAIN LAST_CHECK_TIME = Folders
    /\ LAST_CHECK_TIME["F1"] # LAST_CHECK_TIME["F2"]

\* How often file f occurs in sequence s.
Count(s, f) == Cardinality({i \in DOMAIN s : s[i] = f})

C17_DebounceAcrossRenewal ==
    [][(/\ nreq' = nreq + 1 /\ nfault' = nfault
        /\ ev'.state = "add" /\ ev'.cid \notin {NoChannel, Foreign}
        /\ \E r \in channels : r.folder_id = ev'.cid[1] /\ r.channel_id[2] > 0) =>
         LET F == ev'.cid[1] IN
         /\ ev'.cid[2] = 0 =>
              /\ ev'.kind = "response" /\ ev'.status = 200 /\ ev'.body = "ignored"
              /\ UNCHANGED <<pc, listed, LAST_CHECK_TIME, tasks>>
         /\ (/\ ev'.cid[2] > 0
             /\ F \in DOMAIN listed
             /\ now - listed[F] < DEBOUNCE_INTERVAL) =>
              /\ ev'.kind = "response" /\ ev'.status = 200 /\ ev'.body = "debounced"
              /\ UNCHANGED <<pc, listed, LAST_CHECK_TIME, tasks>>]_vars

\* C17 witness: a notification with the channel_id a renewal has stored was
\* debounced against a listing triggered before that renewal.
C17_Witness ==
    /\ ev.kind = "response" /\ ev.body = "debounced"
    /\ ev.cid[2] > 0
    /\ listed[ev.cid[1]] < ev.cid[2]
    /\ ChannelRows(channels, ChannelId(ev.cid[1], 0)) = {}

FailurePaths == {"download failure", "upload failure", "store failure"}

\* C18 as stated, the state after a failed run: when a run for file_id ends by
\* a failure of the download, of the upload or of the record step, file_id is
\* in neither the in-flight set nor the store.
C18_EligibleAfterFailure ==
    [][\A h \in Handlers :
         (RunEnds(h) /\ ev'.path \in FailurePaths) =>
           /\ Head(tasks[h]) \notin processing_files'
           /\ Existing(processed', Head(tasks[h])) = {}]_vars

\* C19: every file_id in the in-flight set has a run that has added it and has
\* not yet finished its cleanup; when no run is active the set is empty.
C19_NoLeakedEntry ==
    /\ \A f \in processing_files : \E h \in Handlers : InRun(h, f)
    /\ Idle => processing_files = {}

\* C19 witness: every run has ended, the last one by a failed download after an
\* earlier run for the same file, and the in-flight set is empty.
C19_Witness ==
    /\ Idle /\ ev.kind = "exit" /\ ev.path = "download failure"
    /\ runs[ev.file] >= 2
    /\ processing_files = {}

\* Handler g holds a downloaded file of the same name as f, for another file.
HoldsSameName(g, f) ==
    /\ pc[g] = "upload"
    /\ Head(tasks[g]) # f
    /\ Name(Head(tasks[g])) = Name(f)

\* C20: with runs for two files of one name interleaved, an upload that returns
\* a document id has sent the content downloaded for the run's own file_id, and
\* the end of a run leaves the temporary file of another run that is between
\* download and upload as it was.
C20_TempFileIsolation ==
    [][\A h \in Handlers :
         /\ (pc[h] = "upload" /\ uploads'[Head(tasks[h])] = uploads[Head(tasks[h])] + 1) =>
              Opened(tempfiles, Head(tasks[h]), attempt[h]) = Head(tasks[h])
         /\ \A g \in Handlers \ {h} :
              (RunEnds(h) /\ HoldsSameName(g, Head(tasks[h]))) =>
                tempfiles'[Name(Head(tasks[h]))] = tempfiles[Name(Head(tasks[h]))]]_vars

====
